---- MODULE Spec2Model ----
(***************************************************************************)
(* A model of the self-hosted Modern Monaco example:                       *)
(*   - scripts/dev.js   the watch / rebuild / serve supervisor (DevServer) *)
(*   - scripts/build.js buildProject, as far as the supervisor sees it     *)
(*   - server.js        the Express application (middleware stack, routes) *)
(*   - src/app.js       the page (ModernMonacoApp) and its debug console   *)
(* Each component has its own specification (SpecDev, SpecServer, ...);    *)
(* the variables of the other components stay at their initial values.     *)
(***************************************************************************)
EXTENDS Integers, Sequences, FiniteSets, TLC

VARIABLES
    \* ---- scripts/dev.js : DevServer ----
    pc,             \* position of start(): "start" | "initialBuild" | "watching"
    serverProcess,  \* this.serverProcess: "null" | "child"
    isBuilding,     \* this.isBuilding
    buildQueue,     \* this.buildQueue
    inFlight,       \* number of buildProject() invocations not yet settled
    timers,         \* number of pending setTimeout(() => this.build(), 100)
    proc,           \* the supervisor process: "running" | "exit(0)" | "exit(1)" | "killed"
    watcher,        \* chokidar watcher installed
    handlers,       \* SIGINT / SIGTERM handlers installed
    childState,     \* the spawned server: "none" | "running" | "exited" | "errored"
    childNote,      \* what the child's exit / error handler logged last
    killLog,        \* signals sent with serverProcess.kill(...)
    spawnCount,     \* number of spawn('node', ['server.js']) calls
    copierCalls,    \* number of copyModernMonaco() invocations made by the supervisor
    invoked,        \* what the handler that ran last invoked outside DevServer
    \* ---- observation of the watch loop (history variables) ----
    events,         \* number of watcher events delivered so far
    exitCause,      \* why the supervisor ended: "none" | a signal | "buildFail"
    stale,          \* a change was observed that no completed build started after
    covers,         \* the build in flight started after every change observed so far
    burst,          \* watcher events delivered during the build in flight
    burstK,         \* size of the burst that the tracked build received
    track,          \* builds started since a build with a burst completed (-1: not tracking)
    lastOp,         \* name of the last handler that ran
    \* ---- server.js : the Express application ----
    pubFiles,       \* files under public/ (the first static root)
    distFiles,      \* files under ../../dist (the static root mounted at /monaco)
    spc,            \* "idle" | "responded"
    req,            \* the request being answered
    res,            \* the response sent for it
    \* ---- scripts/copy-monaco.js : one or more runs of the copier ----
    distExists,     \* node_modules/modern-monaco/dist can be accessed
    src,            \* files under node_modules/modern-monaco/dist (relative paths)
    dest,           \* files under public/monaco: relative path -> content
    destDirs,       \* directories under public/monaco (the root is <<>>)
    manifest,       \* public/monaco/verification.json
    cphase,         \* position of copyModernMonaco: "start" | "root" | "copy" | "verify" | "done"
    cproc,          \* the copier process: "running" | "exit(0)" | "exit(1)"
    stack,          \* active copyDirectory calls: [dir, todo] with the entries left
    run,            \* which run of the copier this is
    cfail,          \* I/O failures injected so far
    \* ---- observation of the current run (history variables) ----
    attempted,      \* files copyFile was called for
    failedDirs,     \* directories whose copyDirectory caught an error
    warnings,       \* what console.warn was called for: <<"file" | "directory", path>>
    wrote,          \* verification.json was written
    snap,           \* dest at the start of the run
    firstRun,       \* how the traversal of run 1 ended: "pending" | "clean" | "failures"
    \* ---- scripts/build.js : one or more runs of buildProject ----
    nodeEnv,        \* process.env.NODE_ENV: "production" | "development" | "undefined"
    appBundles,     \* esbuild can bundle src/app.js as it is now
    htmlExists,     \* src/index.html can be read
    outDirs,        \* which of public and public/dist exist
    appJs,          \* public/dist/app.js: NoOutput or [build, minify]
    indexHtml,      \* public/index.html: NoOutput or [build, minify]
    bpos,           \* position of buildProject: "mkdirPublic" | "mkdirDist" | "bundle" | "copyHtml" | "done"
    bproc,          \* the build process: "running" | "exit(0)" | "exit(1)"
    buildNo,        \* which run of buildProject this is
    diag,           \* console.error calls of the current run
    \* ---- the setup test script : SetupTester ----
    absent,         \* files of the project that cannot be accessed
    tphase,         \* position of runTests: "files" | "content" | "http" | "scripts" | "reported"
    ti,             \* index of the next check within the phase
    probe,          \* per HTTP probe: [requests, cause, outcomes, settled]
    waiting,        \* a request is out and runTests awaits its promise
    hangups,        \* probes whose destroyed request has yet to emit 'error'
    successes,      \* this.successes.length
    tWarnings,      \* this.warnings.length
    errors,         \* this.errors.length
    checksRun,      \* checks executed so far (history variable)
    lastLogged,     \* outcomes the check that ran last recorded (history variable)
    report,         \* the three counts generateReport printed
    \* ---- src/app.js and its debug-console version : ModernMonacoApp ----
    version,        \* which page runs: "app" (src/app.js) | "debug" (the debug-console version)
    apos,           \* position of init(): "createWorkspace" | "lazy" | "done" | "caught"
    workspace,      \* this.workspace: "null" | "workspace"
    fileTree,       \* this.fileTree: "null" | "fileTree"
    activeFile,     \* fileTree.activeFile
    indicator,      \* class StatusIndicator.setStatus set last ("unset": none yet)
    overlayHidden,  \* #loadingOverlay has class hidden
    logElement,     \* children of #debugLog, oldest first
    logCount,       \* number of DebugLogger.log calls so far
    opens,          \* number of workspace.openTextDocument calls (history variable)
    selects,        \* number of FileTreeManager.selectFile calls (history variable)
    pending,        \* openFile calls awaiting openTextDocument
    lazyOk,         \* lazy() resolved (history variable)
    escaped,        \* rejections that left init or openFile (history variable)
    workerEvents,   \* worker events delivered so far
    workerTimers    \* pending setTimeout callbacks of the Worker wrapper

devVars == <<pc, serverProcess, isBuilding, buildQueue, inFlight, timers, proc,
             watcher, handlers, childState, childNote, killLog, spawnCount,
             copierCalls, invoked,
             events, exitCause, stale, covers, burst, burstK, track, lastOp>>

serverVars == <<pubFiles, distFiles, spc, req, res>>

copyVars == <<distExists, src, dest, destDirs, manifest, cphase, cproc, stack, run,
              cfail, attempted, failedDirs, warnings, wrote, snap, firstRun>>

buildVars == <<nodeEnv, appBundles, htmlExists, outDirs, appJs, indexHtml, bpos,
               bproc, buildNo, diag>>

testVars == <<absent, tphase, ti, probe, waiting, hangups, successes, tWarnings,
              errors, checksRun, lastLogged, report>>

appVars == <<version, apos, workspace, fileTree, activeFile, indicator, overlayHidden,
             logElement, logCount, opens, selects, pending, lazyOk, escaped,
             workerEvents, workerTimers>>

\* The scripts run as separate processes, the page in a browser.
toolVars == <<copyVars, buildVars, testVars, appVars>>

notCopyVars == <<devVars, serverVars, buildVars, testVars, appVars>>
notBuildVars == <<devVars, serverVars, copyVars, testVars, appVars>>
notTestVars == <<devVars, serverVars, copyVars, buildVars, appVars>>
notAppVars == <<devVars, serverVars, copyVars, buildVars, testVars>>

vars == <<devVars, serverVars, toolVars>>

\* Bound on the number of watcher events the environment delivers in one run.
MaxEvents == 4

EventKinds == {"change", "add", "unlink"}
Signals == {"SIGINT", "SIGTERM"}
\* (code, signal) pairs a child's 'exit' event carries.
ChildExits == {<<"0", "null">>, <<"1", "null">>, <<"null", "SIGTERM">>, <<"null", "SIGKILL">>}

----------------------------------------------------------------------------
\* DevServer.constructor, and the process before start() runs.
DevVarsInit ==
    /\ pc = "start"
    /\ serverProcess = "null"
    /\ isBuilding = FALSE
    /\ buildQueue = FALSE
    /\ inFlight = 0
    /\ timers = 0
    /\ proc = "running"
    /\ watcher = FALSE
    /\ handlers = FALSE
    /\ childState = "none"
    /\ childNote = "none"
    /\ killLog = <<>>
    /\ spawnCount = 0
    /\ copierCalls = 0
    /\ invoked = {}
    /\ events = 0
    /\ exitCause = "none"
    /\ stale = FALSE
    /\ covers = FALSE
    /\ burst = 0
    /\ burstK = 0
    /\ track = -1
    /\ lastOp = "constructor"

\* DevServer.build with the isBuilding guard left out (every call bundles).
buildUnguarded ==
    /\ isBuilding' = TRUE
    /\ inFlight' = inFlight + 1
    /\ invoked' = {"buildProject"}
    /\ UNCHANGED <<buildQueue, copierCalls>>

\* DevServer.build that mirrors the Monaco assets again before it bundles.
buildWithCopy ==
    IF isBuilding
    THEN /\ buildQueue' = TRUE
         /\ invoked' = {}
         /\ UNCHANGED <<isBuilding, inFlight, copierCalls>>
    ELSE /\ isBuilding' = TRUE
         /\ inFlight' = inFlight + 1
         /\ copierCalls' = copierCalls + 1
         /\ invoked' = {"copyModernMonaco", "buildProject"}
         /\ UNCHANGED buildQueue

\* DevServer.build up to its await: queue when a build runs, else start one.
build ==
    IF isBuilding
    THEN /\ buildQueue' = TRUE
         /\ invoked' = {}
         /\ UNCHANGED <<isBuilding, inFlight, copierCalls>>
    ELSE /\ isBuilding' = TRUE
         /\ inFlight' = inFlight + 1
         /\ invoked' = {"buildProject"}
         /\ UNCHANGED <<buildQueue, copierCalls>>

\* History bookkeeping for one call of build(); fromEvent: called by the watcher.
ObserveBuildCall(fromEvent) ==
    LET started == inFlight' > inFlight IN
    /\ stale' = (fromEvent \/ stale)
    /\ covers' = IF started THEN TRUE ELSE IF fromEvent THEN FALSE ELSE covers
    /\ burst' = IF started THEN 0 ELSE IF fromEvent THEN burst + 1 ELSE burst
    /\ track' = IF fromEvent THEN -1
                ELSE IF started /\ track >= 0 THEN track + 1 ELSE track
    /\ UNCHANGED burstK

\* DevServer.build's finally block that forgets the queued rebuild.
buildFinallyDropsQueue ==
    /\ isBuilding' = FALSE
    /\ buildQueue' = FALSE
    /\ UNCHANGED timers

\* DevServer.build's finally block that re-enters once per queued event.
buildFinallyPerEvent ==
    /\ isBuilding' = FALSE
    /\ buildQueue' = FALSE
    /\ timers' = timers + burst

\* DevServer.build's finally block that leaves buildQueue set.
buildFinallyKeepsQueue ==
    /\ isBuilding' = FALSE
    /\ IF buildQueue
       THEN timers' = timers + 1
       ELSE UNCHANGED timers
    /\ UNCHANGED buildQueue

\* DevServer.build's finally block.
buildFinally ==
    /\ isBuilding' = FALSE
    /\ IF buildQueue
       THEN /\ buildQueue' = FALSE
            /\ timers' = timers + 1
       ELSE UNCHANGED <<buildQueue, timers>>

\* DevServer.startServer: spawn the server child.
startServer ==
    /\ serverProcess' = "child"
    /\ spawnCount' = spawnCount + 1
    /\ childState' = "running"

\* DevServer.stop that leaves the child alone.
stopWithoutKill ==
    /\ serverProcess' = "null"
    /\ UNCHANGED killLog

\* DevServer.stop
stop ==
    IF serverProcess # "null"
    THEN /\ killLog' = Append(killLog, "SIGTERM")
         /\ serverProcess' = "null"
    ELSE UNCHANGED <<killLog, serverProcess>>

----------------------------------------------------------------------------
\* DevServer.start up to `await this.build()`.
StartInitialBuild ==
    /\ proc = "running"
    /\ pc = "start"
    /\ build
    /\ ObserveBuildCall(FALSE)
    /\ pc' = "initialBuild"
    /\ lastOp' = "start"
    /\ UNCHANGED <<serverVars, toolVars>>
    /\ UNCHANGED <<serverProcess, timers, proc, watcher, handlers, childState,
                   childNote, killLog, spawnCount, events, exitCause>>

\* buildProject() resolves: the rest of build(), and of start() when it awaited.
BuildSucceed ==
    /\ proc = "running"
    /\ inFlight > 0
    /\ inFlight' = inFlight - 1
    /\ buildFinally
    /\ stale' = IF covers THEN FALSE ELSE stale
    /\ track' = IF burst >= 1 /\ timers = 0 THEN 0 ELSE track
    /\ burstK' = IF burst >= 1 /\ timers = 0 THEN burst ELSE burstK
    /\ IF pc = "initialBuild"
       THEN /\ pc' = "watching"
            /\ watcher' = TRUE
            /\ startServer
            /\ handlers' = TRUE
       ELSE UNCHANGED <<pc, watcher, serverProcess, spawnCount, childState, handlers>>
    /\ invoked' = IF pc = "initialBuild" THEN {"spawn"} ELSE {}
    /\ lastOp' = "buildDone"
    /\ UNCHANGED <<serverVars, toolVars>>
    /\ UNCHANGED <<proc, childNote, killLog, events, exitCause, covers, burst,
                   copierCalls>>

\* buildProject() fails: its own catch prints and calls process.exit(1).
BuildFail ==
    /\ proc = "running"
    /\ inFlight > 0
    /\ proc' = "exit(1)"
    /\ exitCause' = "buildFail"
    /\ lastOp' = "buildFail"
    /\ invoked' = {}
    /\ UNCHANGED copierCalls
    /\ UNCHANGED <<serverVars, toolVars>>
    /\ UNCHANGED <<pc, serverProcess, isBuilding, buildQueue, inFlight, timers,
                   watcher, handlers, childState, childNote, killLog, spawnCount,
                   events, stale, covers, burst, burstK, track>>

\* watcher.on('change' | 'add' | 'unlink'): log and call build().
FileEvent(kind) ==
    /\ proc = "running"
    /\ watcher
    /\ events < MaxEvents
    /\ events' = events + 1
    /\ build
    /\ ObserveBuildCall(TRUE)
    /\ lastOp' = kind
    /\ UNCHANGED <<serverVars, toolVars>>
    /\ UNCHANGED <<pc, serverProcess, timers, proc, watcher, handlers, childState,
                   childNote, killLog, spawnCount, exitCause>>

\* The 100 ms timer set by build()'s finally block fires: build().
TimerFire ==
    /\ proc = "running"
    /\ timers > 0
    /\ timers' = timers - 1
    /\ build
    /\ ObserveBuildCall(FALSE)
    /\ lastOp' = "timer"
    /\ UNCHANGED <<serverVars, toolVars>>
    /\ UNCHANGED <<pc, serverProcess, proc, watcher, handlers, childState,
                   childNote, killLog, spawnCount, events, exitCause>>

\* SIGINT / SIGTERM: the handlers of start() once installed, else the default action.
Signal(sig) ==
    /\ proc = "running"
    /\ IF handlers
       THEN /\ stop
            /\ proc' = "exit(0)"
       ELSE /\ proc' = "killed"
            /\ UNCHANGED <<killLog, serverProcess>>
    /\ exitCause' = sig
    /\ lastOp' = sig
    /\ invoked' = {}
    /\ UNCHANGED copierCalls
    /\ UNCHANGED <<serverVars, toolVars>>
    /\ UNCHANGED <<pc, isBuilding, buildQueue, inFlight, timers, watcher, handlers,
                   childState, childNote, spawnCount, events, stale, covers,
                   burst, burstK, track>>

\* serverProcess.on('exit') that takes the supervisor down with the child.
ChildExitEndsSupervisor(code, signal) ==
    /\ proc = "running"
    /\ childState = "running"
    /\ childState' = "exited"
    /\ childNote' = "exit"
    /\ proc' = "exit(1)"
    /\ exitCause' = "childExit"
    /\ lastOp' = "childExit"
    /\ invoked' = {}
    /\ UNCHANGED copierCalls
    /\ UNCHANGED <<serverVars, toolVars>>
    /\ UNCHANGED <<pc, serverProcess, isBuilding, buildQueue, inFlight, timers,
                   watcher, handlers, killLog, spawnCount, events,
                   stale, covers, burst, burstK, track>>

\* serverProcess.on('exit', (code, signal) => ...): logs only.
ChildExit(code, signal) ==
    /\ proc = "running"
    /\ childState = "running"
    /\ childState' = "exited"
    /\ childNote' = IF signal # "null" THEN "killed with signal"
                    ELSE IF code # "null" /\ code # "0" THEN "exited with code"
                    ELSE "none"
    /\ lastOp' = "childExit"
    /\ invoked' = {}
    /\ UNCHANGED copierCalls
    /\ UNCHANGED <<serverVars, toolVars>>
    /\ UNCHANGED <<pc, serverProcess, isBuilding, buildQueue, inFlight, timers, proc,
                   watcher, handlers, killLog, spawnCount, events, exitCause,
                   stale, covers, burst, burstK, track>>

\* serverProcess.on('error', ...): logs only.
ChildError ==
    /\ proc = "running"
    /\ childState = "running"
    /\ childState' = "errored"
    /\ childNote' = "server error"
    /\ lastOp' = "childError"
    /\ invoked' = {}
    /\ UNCHANGED copierCalls
    /\ UNCHANGED <<serverVars, toolVars>>
    /\ UNCHANGED <<pc, serverProcess, isBuilding, buildQueue, inFlight, timers, proc,
                   watcher, handlers, killLog, spawnCount, events, exitCause,
                   stale, covers, burst, burstK, track>>

----------------------------------------------------------------------------
\* server.js : the Express 4 application.
\*
\* A request path is the sequence of its segments (the text after each "/");
\* a segment is a name and the extension after its last dot.  "/" is <<E>>,
\* "/x.mjs" is <<Seg("x", "mjs")>>, "/health/" is <<Seg("health", ""), E>>.

\* Bound on the number of segments of a request path.
MaxSegs == 2

Seg(n, e) == [name |-> n, ext |-> e]
E == Seg("", "")
IndexHtml == Seg("index", "html")

\* Segments requests are built from: the route names, a plain name, a segment
\* that is not valid percent-encoding, a parent reference written plainly and
\* percent-encoded (no dot in the raw path), and dotted names.
Segs == { E, Seg("health", ""), Seg("debug", ""), Seg("files", ""),
          Seg("monaco", ""), Seg("x", ""), Seg("%E0", ""), Seg("..", ""),
          Seg("%2e%2e", ""),
          IndexHtml, Seg("x", "mjs"), Seg("x", "wasm"), Seg("x", "js") }

PathsOfLen(n) == { p \in [1..n -> Segs] : \A i \in 1..(n - 1) : p[i] # E }
Paths == UNION { PathsOfLen(n) : n \in 1..MaxSegs }

Methods == {"GET", "OPTIONS", "POST"}

\* Requests: the Accept header only matters to GET handlers.
Requests ==
    { [method |-> m, path |-> p, acceptsHtml |-> a] :
        m \in Methods, p \in Paths, a \in BOOLEAN }
    \ { r \in [method : Methods, path : Paths, acceptsHtml : {FALSE}] : r.method # "GET" }

\* Files that may exist under public/ and under the library's dist/.
PubUniverse == { <<IndexHtml>>, <<Seg("x", "mjs")>>, <<Seg("x", "wasm")>>,
                 <<Seg("health", "")>>, <<Seg("x", ""), IndexHtml>>,
                 <<Seg("monaco", ""), Seg("x", "mjs")>> }
DistUniverse == { <<Seg("x", "mjs")>>, <<Seg("x", "wasm")>> }

NoReq == [method |-> "none", path |-> <<>>, acceptsHtml |-> FALSE]
NoRes == [status |-> 0, ctype |-> "", cache |-> "", coep |-> "", coop |-> "",
          acao |-> "", body |-> [kind |-> "none"], ended |-> FALSE]

\* A response under construction: status 200, no header set ("" is absent).
FreshRes == [status |-> 200, ctype |-> "", cache |-> "", coep |-> "", coop |-> "",
             acao |-> "", body |-> [kind |-> "none"], ended |-> FALSE]

Front(p) == SubSeq(p, 1, Len(p) - 1)
Last(p) == p[Len(p)]

\* req.path.endsWith('.' + e)
EndsWith(p, e) == Len(p) > 0 /\ Last(p).ext = e

\* req.path.includes('.')
IncludesDot(p) == \E i \in 1..Len(p) : p[i].ext # "" \/ p[i].name = ".."

\* Some segment is ".." once percent-decoded (what express.static tests).
HasUpSegment(p) == \E i \in 1..Len(p) : p[i].name \in {"..", "%2e%2e"}

\* decodeURIComponent succeeds on every segment
Decodable(p) == \A i \in 1..Len(p) : p[i].name # "%E0"

\* req.path.match(/\.(mjs|wasm|js|css|html)$/)
CacheExts == {"mjs", "wasm", "js", "css", "html"}

\* The .mjs / .wasm overrides with the generic binary type for .wasm.
MimeOverrideWasmOctet(e) ==
    IF e = "mjs" THEN "application/javascript"
    ELSE IF e = "wasm" THEN "application/octet-stream"
    ELSE ""

\* The Content-Type the server forces for an extension ("" : none).
MimeOverride(e) ==
    IF e = "mjs" THEN "application/javascript"
    ELSE IF e = "wasm" THEN "application/wasm"
    ELSE ""

\* The type express.static / res.sendFile derive from a file's extension.
MimeLookup(e) ==
    IF e = "html" THEN "text/html; charset=UTF-8"
    ELSE IF e \in {"js", "mjs"} THEN "application/javascript; charset=UTF-8"
    ELSE IF e = "css" THEN "text/css; charset=UTF-8"
    ELSE IF e = "wasm" THEN "application/wasm"
    ELSE "application/octet-stream"

\* res.send / res.json of a string: the type in force, with a charset.
WithCharset(t) == t \o "; charset=utf-8"

\* app.use(compression()): passes every request on (no header modelled here).
Compression(rq, rs) == rs

\* app.use(cors({...})): allow-origin on every response; an OPTIONS request is
\* answered here with 204 and goes no further.
Cors(rq, rs) ==
    IF rq.method = "OPTIONS"
    THEN [rs EXCEPT !.acao = "*", !.status = 204, !.body = [kind |-> "empty"],
                    !.ended = TRUE]
    ELSE [rs EXCEPT !.acao = "*"]

\* The header middleware: MIME overrides, cache directive, isolation headers.
HeaderMiddleware(rq, rs) ==
    IF rs.ended THEN rs
    ELSE LET e == IF Len(rq.path) > 0 THEN Last(rq.path).ext ELSE ""
             t == MimeOverride(e)
         IN [rs EXCEPT !.ctype = IF t # "" THEN t ELSE rs.ctype,
                       !.cache = IF e \in CacheExts
                                 THEN "public, max-age=31536000" ELSE rs.cache,
                       !.coep = "require-corp",
                       !.coop = "same-origin"]

\* d is a directory of the tree: some file lies below it.
IsDir(files, d) ==
    \E f \in files : Len(f) > Len(d) /\ SubSeq(f, 1, Len(d)) = d

\* A file is delivered: 200, the type already set or forced by setHeaders,
\* else the looked-up type; the cache directive already set, else max-age=0.
SendFileRes(root, file, overrides, rs) ==
    LET e == Last(file).ext
        forced == IF overrides THEN MimeOverride(e) ELSE ""
    IN [rs EXCEPT !.status = 200,
                  !.ctype = IF forced # "" THEN forced
                            ELSE IF rs.ctype # "" THEN rs.ctype
                            ELSE MimeLookup(e),
                  !.cache = IF rs.cache # "" THEN rs.cache ELSE "public, max-age=0",
                  !.body = [kind |-> "file", root |-> root, file |-> file],
                  !.ended = TRUE]

\* express.static's answer to a directory requested without a trailing slash.
RedirectRes(rs) ==
    [rs EXCEPT !.status = 301, !.ctype = "text/html; charset=UTF-8",
               !.body = [kind |-> "redirect"], !.ended = TRUE]

\* express.static(root, {setHeaders}) on the path p below its mount point:
\* serves an existing file, a directory's index.html, redirects a directory,
\* and otherwise (also for a path it rejects) passes the request on.
Static(files, root, p, rq, rs) ==
    IF rs.ended \/ rq.method # "GET" THEN rs
    ELSE IF ~Decodable(p) THEN rs
    ELSE IF HasUpSegment(p) THEN rs
    ELSE LET trailing == Len(p) > 0 /\ Last(p) = E
             base == IF trailing THEN Front(p) ELSE p
         IN IF ~trailing /\ base \in files
                THEN SendFileRes(root, base, TRUE, rs)
            ELSE IF ~trailing /\ IsDir(files, base)
                THEN RedirectRes(rs)
            ELSE IF trailing /\ IsDir(files, base) /\ Append(base, IndexHtml) \in files
                THEN SendFileRes(root, Append(base, IndexHtml), TRUE, rs)
            ELSE rs

\* app.use(express.static(public))
StaticPublic(rq, rs) == Static(pubFiles, "public", rq.path, rq, rs)

\* app.use('/monaco', express.static(dist)): the path below the mount point.
StaticMonaco(rq, rs) ==
    IF Len(rq.path) > 0 /\ rq.path[1] = Seg("monaco", "")
    THEN Static(distFiles, "dist", Tail(rq.path), rq, rs)
    ELSE rs

\* The path with one optional trailing slash removed (non-strict routing).
Unslashed(p) == IF Len(p) > 1 /\ Last(p) = E THEN Front(p) ELSE p

\* res.json(obj)
JsonRes(status, body, rs) ==
    [rs EXCEPT !.status = status,
               !.ctype = WithCharset(IF rs.ctype # "" THEN rs.ctype ELSE "application/json"),
               !.body = body, !.ended = TRUE]

\* res.status(s).send(text)
TextRes(status, text, rs) ==
    [rs EXCEPT !.status = status,
               !.ctype = WithCharset(IF rs.ctype # "" THEN rs.ctype ELSE "text/html"),
               !.body = [kind |-> "text", text |-> text], !.ended = TRUE]

\* The error-handling middleware: 500 with a JSON body.
ErrorMiddleware(rs) == JsonRes(500, [kind |-> "error-json"], rs)

\* The body of GET /health.
HealthBody == [kind |-> "health-json", status |-> "ok", timestamp |-> "ISO-8601",
               workers |-> "enabled"]

\* The fallback route serving index.html whatever the path looks like.
FallbackRouteAnyPath(rq, rs) ==
    IF rq.acceptsHtml
    THEN IF <<IndexHtml>> \in pubFiles
         THEN SendFileRes("public", <<IndexHtml>>, FALSE, rs)
         ELSE ErrorMiddleware(rs)
    ELSE TextRes(404, "File not found", rs)

\* The fallback route serving index.html whatever the client accepts.
FallbackRouteAnyClient(rq, rs) ==
    IF ~IncludesDot(rq.path)
    THEN IF <<IndexHtml>> \in pubFiles
         THEN SendFileRes("public", <<IndexHtml>>, FALSE, rs)
         ELSE ErrorMiddleware(rs)
    ELSE TextRes(404, "File not found", rs)

\* The fallback route with the dot test inverted.
FallbackRouteInverted(rq, rs) ==
    IF rq.acceptsHtml /\ IncludesDot(rq.path)
    THEN IF <<IndexHtml>> \in pubFiles
         THEN SendFileRes("public", <<IndexHtml>>, FALSE, rs)
         ELSE ErrorMiddleware(rs)
    ELSE TextRes(404, "File not found", rs)

\* app.get('*'): index.html for navigation requests, else 404; a missing
\* index.html reaches the error middleware.
FallbackRoute(rq, rs) ==
    IF rq.acceptsHtml /\ ~IncludesDot(rq.path)
    THEN IF <<IndexHtml>> \in pubFiles
         THEN SendFileRes("public", <<IndexHtml>>, FALSE, rs)
         ELSE ErrorMiddleware(rs)
    ELSE TextRes(404, "File not found", rs)

\* The router after the static roots: /health, /debug/files, *.js, *.mjs, *,
\* the error middleware for a path whose parameters cannot be decoded, and
\* Express's own 404 for a method no route handles.
Routes(rq, rs) ==
    IF rs.ended THEN rs
    ELSE IF ~Decodable(rq.path) THEN ErrorMiddleware(rs)
    ELSE IF rq.method # "GET"
        THEN [rs EXCEPT !.status = 404, !.ctype = "text/html; charset=utf-8",
                        !.body = [kind |-> "cannot"], !.ended = TRUE]
    ELSE IF Unslashed(rq.path) = <<Seg("health", "")>>
        THEN JsonRes(200, HealthBody, rs)
    ELSE IF Unslashed(rq.path) = <<Seg("debug", ""), Seg("files", "")>>
        THEN JsonRes(200, [kind |-> "debug-json"], rs)
    ELSE IF EndsWith(Unslashed(rq.path), "js")
        THEN TextRes(404, "JavaScript file not found", rs)
    ELSE IF EndsWith(Unslashed(rq.path), "mjs")
        THEN TextRes(404, "Module file not found", rs)
    ELSE FallbackRoute(rq, rs)

\* The whole middleware stack, in registration order.
App(rq) ==
    Routes(rq,
      StaticMonaco(rq,
        StaticPublic(rq,
          HeaderMiddleware(rq,
            Cors(rq,
              Compression(rq, FreshRes))))))

\* One of the two static roots answers the request.
StaticAnswers(rq) ==
    StaticMonaco(rq, StaticPublic(rq, FreshRes)).ended

\* The server before a request: some set of files on disk, nothing in flight.
ServerVarsInit ==
    /\ pubFiles \in SUBSET PubUniverse
    /\ distFiles \in SUBSET DistUniverse
    /\ spc = "idle"
    /\ req = NoReq
    /\ res = NoRes

\* The server's variables while only the supervisor is modelled.
ServerVarsIdle ==
    /\ pubFiles = {}
    /\ distFiles = {}
    /\ spc = "idle"
    /\ req = NoReq
    /\ res = NoRes

\* A request arrives and the application answers it.
HandleRequest ==
    /\ spc = "idle"
    /\ \E rq \in Requests :
           /\ req' = rq
           /\ res' = App(rq)
    /\ spc' = "responded"
    /\ UNCHANGED <<pubFiles, distFiles, devVars, toolVars>>

\* The response has been written; the server waits for the next request.
Finish ==
    /\ spc = "responded"
    /\ spc' = "idle"
    /\ req' = NoReq
    /\ res' = NoRes
    /\ UNCHANGED <<pubFiles, distFiles, devVars, toolVars>>

----------------------------------------------------------------------------
\* scripts/copy-monaco.js : the Asset Copier.
\*
\* A file is named by its path relative to the tree's root, a sequence of
\* names; the root directory is <<>>.

\* Bound on the number of I/O operations that fail in one behaviour.
MaxFailures == 1
\* Bound on the number of times the copier is run.
MaxRuns == 2

Root == <<>>

\* const criticalFiles = [...]
criticalFiles ==
    { <<"index.mjs">>, <<"editor-core.mjs">>, <<"editor-worker.mjs">>,
      <<"lsp", "typescript", "worker.mjs">>, <<"lsp", "html", "worker.mjs">>,
      <<"lsp", "css", "worker.mjs">>, <<"lsp", "json", "worker.mjs">>,
      <<"onig.wasm">> }

\* What the package's dist directory holds when nothing is missing.
DistUniverseFiles ==
    criticalFiles \cup { <<"editor-worker-main.mjs">>, <<"lsp", "index.mjs">> }

\* The files the installed package may lack: critical ones at the top and in
\* a sub-directory, and one no list of the copier names.
MayBeMissing ==
    { <<"onig.wasm">>, <<"lsp", "css", "worker.mjs">>, <<"editor-worker-main.mjs">> }

\* Files public/monaco may hold before the first run.
PreUniverse == { <<"old.mjs">>, <<"onig.wasm">> }

\* The order in which readdir lists names.
NameOrder ==
    << "css", "editor-core.mjs", "editor-worker-main.mjs", "editor-worker.mjs",
       "html", "index.mjs", "json", "lsp", "old.mjs", "onig.wasm", "typescript",
       "worker.mjs" >>

\* The bytes of the package's file f, and of a file left by something else.
DistContent(f) == [origin |-> "dist", of |-> f]
OldContent(f) == [origin |-> "old", of |-> f]

NoManifest == [status |-> "none", files |-> {}, timestamp |-> 0]

IsUnder(d, f) == Len(d) < Len(f) /\ SubSeq(f, 1, Len(d)) = d

\* entry.isDirectory() for the entry at path q of the source tree
IsSrcDir(q) == \E f \in src : IsUnder(q, f)

\* fs.readdir(src, { withFileTypes: true }) of the source directory d
readdir(d) ==
    LET names == { f[Len(d) + 1] : f \in { g \in src : IsUnder(d, g) } }
        Listed(n) == n \in names
    IN  SelectSeq(NameOrder, Listed)

\* Return from every copyDirectory call whose loop has no entry left.
RECURSIVE Unwind(_)
Unwind(st) ==
    IF st = <<>> THEN st
    ELSE IF Last(st).todo = <<>> THEN Unwind(Front(st))
    ELSE st

\* The loop of the innermost call moves past the entry it was at.
PastEntry(st) ==
    [st EXCEPT ![Len(st)] = [dir |-> Last(st).dir, todo |-> Tail(Last(st).todo)]]

\* The path of the entry the innermost copyDirectory call is at.
NextEntry == Last(stack).dir \o <<Head(Last(stack).todo)>>

\* dest with the file f holding content c
WithFile(d, f, c) == [g \in DOMAIN d \cup {f} |-> IF g = f THEN c ELSE d[g]]
WithoutFile(d, f) == [g \in DOMAIN d \ {f} |-> d[g]]

CopyVarsInit ==
    /\ distExists \in BOOLEAN
    /\ src \in IF distExists
               THEN { DistUniverseFiles \ m : m \in SUBSET MayBeMissing }
               ELSE { {} }
    /\ \E pre \in SUBSET PreUniverse : dest = [f \in pre |-> OldContent(f)]
    /\ destDirs = IF DOMAIN dest = {} THEN {} ELSE {Root}
    /\ manifest = NoManifest
    /\ cphase = "start"
    /\ cproc = "running"
    /\ stack = <<>>
    /\ run = 1
    /\ cfail = 0
    /\ attempted = {}
    /\ failedDirs = {}
    /\ warnings = {}
    /\ wrote = FALSE
    /\ snap = dest
    /\ firstRun = "pending"

\* The copier's variables while another component is modelled.
CopyVarsIdle ==
    /\ distExists = FALSE
    /\ src = {}
    /\ dest = << >>
    /\ destDirs = {}
    /\ manifest = NoManifest
    /\ cphase = "start"
    /\ cproc = "running"
    /\ stack = <<>>
    /\ run = 1
    /\ cfail = 0
    /\ attempted = {}
    /\ failedDirs = {}
    /\ warnings = {}
    /\ wrote = FALSE
    /\ snap = << >>
    /\ firstRun = "pending"

\* Where the traversal stands: about to call copyDirectory, or copyFile.
AtDirectory == cphase = "root" \/ (cphase = "copy" /\ IsSrcDir(NextEntry))
AtFile == cphase = "copy" /\ ~IsSrcDir(NextEntry)
CallDir == IF cphase = "root" THEN Root ELSE NextEntry
Callers == IF cphase = "root" THEN <<>> ELSE PastEntry(stack)

\* The awaited call is over: the loops go on, or the traversal is finished.
Returned(st) ==
    LET u == Unwind(st) IN
    /\ stack' = u
    /\ cphase' = IF u = <<>> THEN "verify" ELSE "copy"
    /\ firstRun' = IF run = 1 /\ u = <<>>
                   THEN IF warnings' = {} /\ DOMAIN snap = {} THEN "clean" ELSE "failures"
                   ELSE firstRun

\* copyModernMonaco up to the fs.access of the package's dist directory.
AccessDist ==
    /\ cproc = "running"
    /\ cphase = "start"
    /\ IF distExists
       THEN /\ cphase' = "root"
            /\ UNCHANGED cproc
       ELSE /\ cphase' = "done"
            /\ cproc' = "exit(1)"
    /\ UNCHANGED <<distExists, src, dest, destDirs, manifest, stack, run, cfail,
                   attempted, failedDirs, warnings, wrote, snap, firstRun>>
    /\ UNCHANGED notCopyVars

\* copyDirectory that copies the files of the top directory only.
copyDirectoryShallow ==
    /\ cproc = "running"
    /\ AtDirectory
    /\ UNCHANGED <<distExists, src, dest, manifest, cproc, run, cfail,
                   attempted, failedDirs, warnings, wrote, snap>>
    /\ IF cphase = "root"
       THEN /\ destDirs' = destDirs \cup {CallDir}
            /\ Returned(<<[dir |-> CallDir, todo |-> readdir(CallDir)]>>)
       ELSE /\ UNCHANGED destDirs
            /\ Returned(Callers)
    /\ UNCHANGED notCopyVars

\* copyDirectory that first deletes what the source directory does not hold.
copyDirectoryMirroring ==
    /\ cproc = "running"
    /\ AtDirectory
    /\ destDirs' = destDirs \cup {CallDir}
    /\ dest' = [g \in DOMAIN dest \cap src |-> dest[g]]
    /\ UNCHANGED <<distExists, src, manifest, cproc, run, cfail,
                   attempted, failedDirs, warnings, wrote, snap>>
    /\ Returned(Append(Callers, [dir |-> CallDir, todo |-> readdir(CallDir)]))
    /\ UNCHANGED notCopyVars

\* copyDirectory: ensureDir(dest) and readdir(src) succeed, the loop starts.
copyDirectory ==
    /\ cproc = "running"
    /\ AtDirectory
    /\ destDirs' = destDirs \cup {CallDir}
    /\ UNCHANGED <<distExists, src, dest, manifest, cproc, run, cfail,
                   attempted, failedDirs, warnings, wrote, snap>>
    /\ Returned(Append(Callers, [dir |-> CallDir, todo |-> readdir(CallDir)]))
    /\ UNCHANGED notCopyVars

\* copyDirectory: ensureDir(dest) throws, or readdir(src) does after the
\* directory was made; the catch warns and the call returns.
copyDirectoryCatch(made) ==
    /\ cproc = "running"
    /\ AtDirectory
    /\ cfail < MaxFailures
    /\ cfail' = cfail + 1
    /\ destDirs' = IF made THEN destDirs \cup {CallDir} ELSE destDirs
    /\ failedDirs' = failedDirs \cup {CallDir}
    /\ warnings' = warnings \cup {<<"directory", CallDir>>}
    /\ UNCHANGED <<distExists, src, dest, manifest, cproc, run, attempted, wrote, snap>>
    /\ Returned(Callers)
    /\ UNCHANGED notCopyVars

\* copyFile: fs.copyFile succeeds.
copyFile ==
    /\ cproc = "running"
    /\ AtFile
    /\ dest' = WithFile(dest, NextEntry, DistContent(NextEntry))
    /\ attempted' = attempted \cup {NextEntry}
    /\ UNCHANGED <<distExists, src, destDirs, manifest, cproc, run, cfail,
                   failedDirs, warnings, wrote, snap>>
    /\ Returned(PastEntry(stack))
    /\ UNCHANGED notCopyVars

\* copyFile whose error escapes to copyDirectory's catch, ending its loop.
copyFileCatchRethrows(removed) ==
    /\ cproc = "running"
    /\ AtFile
    /\ cfail < MaxFailures
    /\ cfail' = cfail + 1
    /\ dest' = IF removed THEN WithoutFile(dest, NextEntry) ELSE dest
    /\ attempted' = attempted \cup {NextEntry}
    /\ warnings' = warnings \cup {<<"file", NextEntry>>}
    /\ UNCHANGED <<distExists, src, destDirs, manifest, cproc, run,
                   failedDirs, wrote, snap>>
    /\ Returned(Front(stack))
    /\ UNCHANGED notCopyVars

\* copyFile: fs.copyFile throws (it may have removed the destination file);
\* the catch warns and returns false.
copyFileCatch(removed) ==
    /\ cproc = "running"
    /\ AtFile
    /\ cfail < MaxFailures
    /\ cfail' = cfail + 1
    /\ dest' = IF removed THEN WithoutFile(dest, NextEntry) ELSE dest
    /\ attempted' = attempted \cup {NextEntry}
    /\ warnings' = warnings \cup {<<"file", NextEntry>>}
    /\ UNCHANGED <<distExists, src, destDirs, manifest, cproc, run,
                   failedDirs, wrote, snap>>
    /\ Returned(PastEntry(stack))
    /\ UNCHANGED notCopyVars

\* Every critical file can be accessed under public/monaco.
allFilesPresent == criticalFiles \subseteq DOMAIN dest

verificationResults == [f \in criticalFiles |-> f \in DOMAIN dest]

\* The end of copyModernMonaco with the exit on a missing file left out.
VerifyAlwaysWrites ==
    /\ cproc = "running"
    /\ cphase = "verify"
    /\ cphase' = "done"
    /\ manifest' = [status |-> "ready", files |-> verificationResults, timestamp |-> run]
    /\ wrote' = TRUE
    /\ cproc' = "exit(0)"
    /\ UNCHANGED <<distExists, src, dest, destDirs, stack, run, cfail,
                   attempted, failedDirs, warnings, snap, firstRun>>
    /\ UNCHANGED notCopyVars

\* The end of copyModernMonaco: check the critical files, exit(1) when one is
\* missing, else write verification.json and end.
Verify ==
    /\ cproc = "running"
    /\ cphase = "verify"
    /\ cphase' = "done"
    /\ IF ~allFilesPresent
       THEN /\ cproc' = "exit(1)"
            /\ UNCHANGED <<manifest, wrote>>
       ELSE /\ manifest' = [status |-> "ready", files |-> verificationResults,
                            timestamp |-> run]
            /\ wrote' = TRUE
            /\ cproc' = "exit(0)"
    /\ UNCHANGED <<distExists, src, dest, destDirs, stack, run, cfail,
                   attempted, failedDirs, warnings, snap, firstRun>>
    /\ UNCHANGED notCopyVars

\* fs.writeFile of verification.json throws (it may leave a truncated file):
\* the rejection reaches the catch of the script's entry point, exit(1).
WriteManifestFails(partial) ==
    /\ cproc = "running"
    /\ cphase = "verify"
    /\ allFilesPresent
    /\ cfail < MaxFailures
    /\ cfail' = cfail + 1
    /\ cphase' = "done"
    /\ cproc' = "exit(1)"
    /\ manifest' = IF partial THEN [status |-> "truncated", files |-> << >>, timestamp |-> run]
                   ELSE manifest
    /\ UNCHANGED <<distExists, src, dest, destDirs, stack, run,
                   attempted, failedDirs, warnings, wrote, snap, firstRun>>
    /\ UNCHANGED notCopyVars

\* The script is started again on the same directories.
RunCopierAgain ==
    /\ cphase = "done"
    /\ run < MaxRuns
    /\ run' = run + 1
    /\ cphase' = "start"
    /\ cproc' = "running"
    /\ stack' = <<>>
    /\ attempted' = {}
    /\ failedDirs' = {}
    /\ warnings' = {}
    /\ wrote' = FALSE
    /\ snap' = dest
    /\ UNCHANGED <<distExists, src, dest, destDirs, manifest, cfail, firstRun>>
    /\ UNCHANGED notCopyVars

CopyNext ==
    \/ AccessDist
    \/ copyDirectory
    \/ \E made \in BOOLEAN : copyDirectoryCatch(made)
    \/ copyFile
    \/ \E removed \in BOOLEAN : copyFileCatch(removed)
    \/ Verify
    \/ \E partial \in BOOLEAN : WriteManifestFails(partial)
    \/ RunCopierAgain


----------------------------------------------------------------------------
\* scripts/build.js : the Bundler Invocation.

\* Bound on the number of times buildProject is run.
MaxBuilds == 2

NoOutput == [build |-> 0, minify |-> FALSE]

\* minify: process.env.NODE_ENV === 'production'
Minify == nodeEnv = "production"

\* What build k writes.
Output(k) == [build |-> k, minify |-> Minify]

BuildVarsInit ==
    /\ nodeEnv \in {"production", "development", "undefined"}
    /\ appBundles \in BOOLEAN
    /\ htmlExists \in BOOLEAN
    /\ outDirs \in {{}, {"public"}, {"public", "public/dist"}}
    /\ appJs = NoOutput
    /\ indexHtml = NoOutput
    /\ bpos = "mkdirPublic"
    /\ bproc = "running"
    /\ buildNo = 1
    /\ diag = 0

\* The build's variables while another component is modelled.
BuildVarsIdle ==
    /\ nodeEnv = "undefined"
    /\ appBundles = TRUE
    /\ htmlExists = TRUE
    /\ outDirs = {}
    /\ appJs = NoOutput
    /\ indexHtml = NoOutput
    /\ bpos = "mkdirPublic"
    /\ bproc = "running"
    /\ buildNo = 1
    /\ diag = 0

\* await ensureDir(public): fs.mkdir succeeds or reports EEXIST.
EnsurePublicDir ==
    /\ bproc = "running"
    /\ bpos = "mkdirPublic"
    /\ outDirs' = outDirs \cup {"public"}
    /\ bpos' = "mkdirDist"
    /\ UNCHANGED <<nodeEnv, appBundles, htmlExists, appJs, indexHtml, bproc, buildNo, diag>>
    /\ UNCHANGED notBuildVars

\* await ensureDir(public/dist)
EnsureDistDir ==
    /\ bproc = "running"
    /\ bpos = "mkdirDist"
    /\ outDirs' = outDirs \cup {"public/dist"}
    /\ bpos' = "bundle"
    /\ UNCHANGED <<nodeEnv, appBundles, htmlExists, appJs, indexHtml, bproc, buildNo, diag>>
    /\ UNCHANGED notBuildVars

\* await build({...}): esbuild writes public/dist/app.js.
Esbuild ==
    /\ bproc = "running"
    /\ bpos = "bundle"
    /\ appBundles
    /\ appJs' = Output(buildNo)
    /\ bpos' = "copyHtml"
    /\ UNCHANGED <<nodeEnv, appBundles, htmlExists, outDirs, indexHtml, bproc, buildNo, diag>>
    /\ UNCHANGED notBuildVars

\* await copyFile(src/index.html, public/index.html), then the closing logs.
CopyIndexHtml ==
    /\ bproc = "running"
    /\ bpos = "copyHtml"
    /\ htmlExists
    /\ indexHtml' = [build |-> buildNo, minify |-> FALSE]
    /\ bpos' = "done"
    /\ bproc' = "exit(0)"
    /\ UNCHANGED <<nodeEnv, appBundles, htmlExists, outDirs, appJs, buildNo, diag>>
    /\ UNCHANGED notBuildVars

\* The awaited step throws (an I/O error at any step, a bundling error when
\* src/app.js does not bundle, a missing src/index.html): the catch prints
\* the diagnostic and calls process.exit(1).
BuildProjectCatch ==
    /\ bproc = "running"
    /\ bpos # "done"
    /\ diag' = diag + 1
    /\ bproc' = "exit(1)"
    /\ bpos' = "done"
    /\ UNCHANGED <<nodeEnv, appBundles, htmlExists, outDirs, appJs, indexHtml, buildNo>>
    /\ UNCHANGED notBuildVars

\* The script is run again, after the sources may have been edited.
BuildProjectAgain ==
    /\ bpos = "done"
    /\ buildNo < MaxBuilds
    /\ buildNo' = buildNo + 1
    /\ appBundles' \in BOOLEAN
    /\ htmlExists' \in BOOLEAN
    /\ bpos' = "mkdirPublic"
    /\ bproc' = "running"
    /\ diag' = 0
    /\ UNCHANGED <<nodeEnv, outDirs, appJs, indexHtml>>
    /\ UNCHANGED notBuildVars

BuildNext ==
    \/ EnsurePublicDir
    \/ EnsureDistDir
    \/ Esbuild
    \/ CopyIndexHtml
    \/ BuildProjectCatch
    \/ BuildProjectAgain

----------------------------------------------------------------------------
\* The setup test script : SetupTester, the Verification Runner.

\* const monacoFiles = [...]
monacoFiles ==
    << "index.mjs", "editor-core.mjs", "editor-worker-main.mjs", "lsp/index.mjs",
       "lsp/typescript/worker.mjs", "lsp/html/worker.mjs", "lsp/css/worker.mjs",
       "lsp/json/worker.mjs", "onig.wasm" >>

\* The testFileExists calls of Tests 1 to 3, in order.
FileChecks ==
    << "package.json", "server.js", "src/index.html", "src/app.js",
       "public/index.html", "public/dist/app.js" >>
    \o [i \in 1..Len(monacoFiles) |-> "public/monaco/" \o monacoFiles[i]]

\* The testFileContent calls of Tests 4 and 5: the file read, the text looked for.
ContentChecks ==
    << <<"public/index.html", "import map">>,
       <<"server.js", "application/javascript">>,
       <<"server.js", "cors">> >>

\* The testHttpEndpoint calls of Test 6.
Probes == << "/health", "/monaco/index.mjs", "/monaco/editor-worker-main.mjs" >>

\* const requiredScripts = [...]
requiredScripts == {"build", "dev", "start", "setup", "copy-monaco"}

\* The checked files that may be missing when the script runs.
MayBeAbsent ==
    { "package.json", "server.js", "public/index.html",
      "public/monaco/editor-worker-main.mjs" }

NoProbe == [requests |-> 0, cause |-> "none", outcomes |-> <<>>, settled |-> FALSE]
NoReport == [successes |-> -1, warnings |-> -1, errors |-> -1]

\* SetupTester.log(message, type): push on the array of the type.
log(type) ==
    /\ successes' = IF type = "success" THEN successes + 1 ELSE successes
    /\ tWarnings' = IF type = "warning" THEN tWarnings + 1 ELSE tWarnings
    /\ errors' = IF type = "error" THEN errors + 1 ELSE errors

\* runTests moves on to the awaited call after check i of a phase of n checks.
NextCheck(n, then) ==
    IF ti < n
    THEN /\ ti' = ti + 1
         /\ UNCHANGED tphase
    ELSE /\ ti' = 1
         /\ tphase' = then

TestVarsInit ==
    /\ absent \in SUBSET MayBeAbsent
    /\ tphase = "files"
    /\ ti = 1
    /\ probe = [p \in 1..Len(Probes) |-> NoProbe]
    /\ waiting = FALSE
    /\ hangups = {}
    /\ successes = 0
    /\ tWarnings = 0
    /\ errors = 0
    /\ checksRun = 0
    /\ lastLogged = <<>>
    /\ report = NoReport

\* The tester's variables while another component is modelled.
TestVarsIdle ==
    /\ absent = {}
    /\ tphase = "files"
    /\ ti = 1
    /\ probe = [p \in 1..Len(Probes) |-> NoProbe]
    /\ waiting = FALSE
    /\ hangups = {}
    /\ successes = 0
    /\ tWarnings = 0
    /\ errors = 0
    /\ checksRun = 0
    /\ lastLogged = <<>>
    /\ report = NoReport


\* The outcome recorded for probe p, and what ended it.
Recorded(p, type, why) ==
    probe' = [probe EXCEPT ![p] = [requests |-> @.requests,
                                   cause |-> IF @.cause = "none" THEN why ELSE @.cause,
                                   outcomes |-> Append(@.outcomes, type),
                                   settled |-> TRUE]]

\* await this.testFileExists(...): one check of Tests 1 to 3.
testFileExists ==
    /\ tphase = "files"
    /\ LET type == IF FileChecks[ti] \in absent THEN "error" ELSE "success" IN
       /\ log(type)
       /\ lastLogged' = <<type>>
    /\ checksRun' = checksRun + 1
    /\ NextCheck(Len(FileChecks), "content")
    /\ UNCHANGED <<absent, probe, waiting, hangups, report>>
    /\ UNCHANGED notTestVars

\* await this.testFileContent(...): one check of Tests 4 and 5; includes is
\* what content.includes(expectedContent) returns when the file can be read.
testFileContent(includes) ==
    /\ tphase = "content"
    /\ LET type == IF ContentChecks[ti][1] \in absent THEN "error"
                   ELSE IF includes THEN "success" ELSE "warning" IN
       /\ log(type)
       /\ lastLogged' = <<type>>
    /\ checksRun' = checksRun + 1
    /\ NextCheck(Len(ContentChecks), "http")
    /\ UNCHANGED <<absent, probe, waiting, hangups, report>>
    /\ UNCHANGED notTestVars

\* this.testHttpEndpoint(...) up to the return of the promise: http.get.
testHttpEndpoint ==
    /\ tphase = "http"
    /\ ~waiting
    /\ waiting' = TRUE
    /\ probe' = [probe EXCEPT ![ti].requests = @ + 1]
    /\ checksRun' = checksRun + 1
    /\ lastLogged' = <<>>
    /\ UNCHANGED <<absent, tphase, ti, hangups, successes, tWarnings, errors, report>>
    /\ UNCHANGED notTestVars

\* The response callback of http.get.
HttpResponse(statusCode) ==
    /\ tphase = "http"
    /\ waiting
    /\ LET type == IF statusCode = 200 THEN "success" ELSE "warning" IN
       /\ log(type)
       /\ lastLogged' = Append(lastLogged, type)
       /\ Recorded(ti, type, IF statusCode = 200 THEN "200" ELSE "other status")
    /\ waiting' = FALSE
    /\ NextCheck(Len(Probes), "scripts")
    /\ UNCHANGED <<absent, hangups, checksRun, report>>
    /\ UNCHANGED notTestVars

\* request.on('error'): the connection failed.
HttpError ==
    /\ tphase = "http"
    /\ waiting
    /\ log("error")
    /\ lastLogged' = Append(lastLogged, "error")
    /\ Recorded(ti, "error", "connection failed")
    /\ waiting' = FALSE
    /\ NextCheck(Len(Probes), "scripts")
    /\ UNCHANGED <<absent, hangups, checksRun, report>>
    /\ UNCHANGED notTestVars

\* The request.setTimeout callback: log the timeout, request.destroy() (the
\* request, still without a response, will emit 'error'), resolve(false).
HttpTimeout ==
    /\ tphase = "http"
    /\ waiting
    /\ log("error")
    /\ lastLogged' = Append(lastLogged, "error")
    /\ Recorded(ti, "error", "timeout")
    /\ hangups' = hangups \cup {ti}
    /\ waiting' = FALSE
    /\ NextCheck(Len(Probes), "scripts")
    /\ UNCHANGED <<absent, checksRun, report>>
    /\ UNCHANGED notTestVars

\* request.on('error') for a destroyed request: "socket hang up".
HangUp(p) ==
    /\ p \in hangups
    /\ hangups' = hangups \ {p}
    /\ log("error")
    /\ Recorded(p, "error", "timeout")
    /\ UNCHANGED <<absent, tphase, ti, waiting, checksRun, lastLogged, report>>
    /\ UNCHANGED notTestVars

\* Test 7 and generateReport, which run in one turn after package.json is
\* read: parses is whether JSON.parse accepts it, defined the scripts it has.
TestScriptsAndReport(parses, defined) ==
    /\ tphase = "scripts"
    /\ IF "package.json" \notin absent /\ parses
       THEN LET good == Cardinality(requiredScripts \cap defined)
                bad == Cardinality(requiredScripts \ defined) IN
            /\ successes' = successes + good
            /\ errors' = errors + bad
            /\ UNCHANGED tWarnings
            /\ checksRun' = checksRun + Cardinality(requiredScripts)
            /\ lastLogged' = <<IF "copy-monaco" \in defined THEN "success" ELSE "error">>
       ELSE /\ log("error")
            /\ lastLogged' = <<"error">>
            /\ UNCHANGED checksRun
    /\ report' = [successes |-> successes', warnings |-> tWarnings', errors |-> errors']
    /\ tphase' = "reported"
    /\ UNCHANGED <<absent, ti, probe, waiting, hangups>>
    /\ UNCHANGED notTestVars

TestNext ==
    \/ testFileExists
    \/ \E includes \in BOOLEAN : testFileContent(includes)
    \/ testHttpEndpoint
    \/ \E statusCode \in {200, 404} : HttpResponse(statusCode)
    \/ HttpError
    \/ HttpTimeout
    \/ \E p \in 1..Len(Probes) : HangUp(p)
    \/ \E parses \in BOOLEAN, defined \in SUBSET requiredScripts :
           TestScriptsAndReport(parses, defined)

----------------------------------------------------------------------------
\* src/app.js and its debug-console version: ModernMonacoApp.

\* DebugLogger.maxLogs
maxLogs == 50

\* Bound on the number of workspace.openTextDocument calls in one page load.
MaxOpens == 25

\* Bound on the number of worker events (creation, message, error) in one page load.
MaxWorkerEvents == 2

WorkerEventKinds == {"create", "message", "error"}

\* The div DebugLogger.log creates for the n-th message logged.  Its text is
\* the message; its class (the type) only selects the styling and is left out.
logEntry(n, type) == [message |-> n]

\* while (children.length > maxLogs) removeChild(firstChild)
RECURSIVE RemoveOldest(_)
RemoveOldest(children) ==
    IF Len(children) > maxLogs THEN RemoveOldest(Tail(children)) ELSE children

\* A logger that drops the entry just added instead of the oldest one.
DebugLoggerLogKeepsOldest(children, entry) ==
    IF Len(children) >= maxLogs THEN children ELSE Append(children, entry)

\* DebugLogger.log: appendChild, then trim from the front.
DebugLoggerLog(children, entry) == RemoveOldest(Append(children, entry))

\* The log element after logging messages of these types, the first being the n-th.
RECURSIVE LogAll(_, _, _)
LogAll(children, n, types) ==
    IF types = <<>> THEN children
    ELSE LogAll(DebugLoggerLog(children, logEntry(n, Head(types))), n + 1, Tail(types))

\* this.logger.info / success / error calls of one handler, in order.  src/app.js
\* has no logger.
Logs(types) ==
    IF version = "debug"
    THEN /\ logElement' = LogAll(logElement, logCount + 1, types)
         /\ logCount' = logCount + Len(types)
    ELSE UNCHANGED <<logElement, logCount>>

\* StatusIndicator.setStatus(status, message); src/app.js has no indicator.
setStatus(s) ==
    IF version = "debug" THEN indicator' = s ELSE UNCHANGED indicator

\* A rejection leaves an async function only if its catch block rethrows.
Escapes(threw, rethrows) == IF threw /\ rethrows THEN 1 ELSE 0

AppVarsInit ==
    /\ version \in {"app", "debug"}
    /\ apos = "createWorkspace"
    /\ workspace = "null"
    /\ fileTree = "null"
    /\ activeFile = "none"
    /\ indicator = "unset"
    /\ overlayHidden = FALSE
    /\ logElement = <<>>
    /\ logCount = 0
    /\ opens = 0
    /\ selects = 0
    /\ pending = 0
    /\ lazyOk = FALSE
    /\ escaped = 0
    /\ workerEvents = 0
    /\ workerTimers = 0

\* The page's variables while another component is modelled.
AppVarsIdle ==
    /\ version = "app"
    /\ apos = "createWorkspace"
    /\ workspace = "null"
    /\ fileTree = "null"
    /\ activeFile = "none"
    /\ indicator = "unset"
    /\ overlayHidden = FALSE
    /\ logElement = <<>>
    /\ logCount = 0
    /\ opens = 0
    /\ selects = 0
    /\ pending = 0
    /\ lazyOk = FALSE
    /\ escaped = 0
    /\ workerEvents = 0
    /\ workerTimers = 0

\* DOMContentLoaded: the constructor calls init(), which runs up to its first
\* await.  createWorkspace has no await of its own; new Workspace(...) may throw,
\* which init's catch receives.
createWorkspace(throws) ==
    /\ apos = "createWorkspace"
    /\ IF throws
       THEN /\ Logs(<<"info", "info", "error">>)
            /\ setStatus("error")
            /\ apos' = "caught"
            /\ UNCHANGED <<workspace, fileTree>>
       ELSE /\ Logs(<<"info", "info", "success">>)
            /\ setStatus("")
            /\ workspace' = "workspace"
            /\ fileTree' = IF version = "debug" THEN "fileTree" ELSE "null"
            /\ apos' = "lazy"
    /\ escaped' = escaped + Escapes(throws, FALSE)
    /\ UNCHANGED <<version, activeFile, overlayHidden, opens, selects, pending,
                   lazyOk, workerEvents, workerTimers>>
    /\ UNCHANGED notAppVars

\* initializeMonaco whose catch block does not rethrow.
initializeMonacoSwallows(throws) ==
    /\ apos = "lazy"
    /\ Logs(IF throws THEN <<"info", "error", "success", "info">>
                      ELSE <<"info", "success", "info", "success", "info">>)
    /\ setStatus("ready")
    /\ overlayHidden' = (version = "debug")
    /\ opens' = opens + 1
    /\ pending' = pending + 1
    /\ lazyOk' = ~throws
    /\ apos' = "done"
    /\ escaped' = escaped
    /\ UNCHANGED <<version, workspace, fileTree, activeFile, selects,
                   workerEvents, workerTimers>>
    /\ UNCHANGED notAppVars

\* await this.initializeMonaco() settles.  lazy() resolved: init marks the
\* page ready, hides the overlay and calls openFile('index.html'), which runs
\* up to its await of openTextDocument.  lazy() rejected: initializeMonaco's
\* catch rethrows and init's catch reports the failure.
initializeMonaco(throws) ==
    /\ apos = "lazy"
    /\ LET rethrown == throws IN
       IF rethrown
       THEN /\ Logs(<<"info", "error", "error">>)
            /\ setStatus("error")
            /\ apos' = "caught"
            /\ UNCHANGED <<overlayHidden, opens, pending>>
       ELSE /\ Logs(<<"info", "success", "info", "success", "info">>)
            /\ setStatus("ready")
            /\ overlayHidden' = (version = "debug")
            /\ opens' = opens + 1
            /\ pending' = pending + 1
            /\ apos' = "done"
    /\ lazyOk' = ~throws
    /\ escaped' = escaped + Escapes(throws, FALSE)
    /\ UNCHANGED <<version, workspace, fileTree, activeFile, selects,
                   workerEvents, workerTimers>>
    /\ UNCHANGED notAppVars

\* openFile resumes after await this.workspace.openTextDocument(filename).
\* Resolved: this.fileTree.selectFile(filename) sets activeFile, renders and
\* calls onFileSelect, which is (filename) => this.openFile(filename): a new
\* openFile runs up to its own await before the first one logs success.  In
\* src/app.js fileTree is null, so the call throws into openFile's catch.
\* Rejected: openFile's catch logs the failure.
openTextDocumentSettles(ok) ==
    /\ pending > 0
    /\ (ok /\ fileTree # "null") => opens < MaxOpens
    /\ IF ok /\ fileTree # "null"
       THEN /\ activeFile' = "index.html"
            /\ selects' = selects + 1
            /\ opens' = opens + 1
            /\ pending' = pending
            /\ Logs(<<"info", "success">>)
       ELSE /\ pending' = pending - 1
            /\ Logs(<<"error">>)
            /\ UNCHANGED <<activeFile, selects, opens>>
    /\ escaped' = escaped + Escapes(~ok \/ fileTree = "null", FALSE)
    /\ UNCHANGED <<version, apos, workspace, fileTree, indicator, overlayHidden,
                   lazyOk, workerEvents, workerTimers>>
    /\ UNCHANGED notAppVars

\* WorkerDebugger: the wrapped Worker constructor and the listeners it adds.
WorkerEvent(kind) ==
    /\ version = "debug"
    /\ apos # "createWorkspace"
    /\ workerEvents < MaxWorkerEvents
    /\ kind # "create" => workerEvents > 0
    /\ workerEvents' = workerEvents + 1
    /\ workerTimers' = IF kind = "create" THEN workerTimers + 1 ELSE workerTimers
    /\ Logs(CASE kind = "create" -> <<"info", "info">>
              [] kind = "message" -> <<"success">>
              [] kind = "error" -> <<"error", "error">>)
    /\ UNCHANGED <<version, apos, workspace, fileTree, activeFile, indicator,
                   overlayHidden, opens, selects, pending, lazyOk, escaped>>
    /\ UNCHANGED notAppVars

\* The setTimeout(..., 100) of the wrapped Worker constructor fires.
WorkerCreatedTimer ==
    /\ workerTimers > 0
    /\ workerTimers' = workerTimers - 1
    /\ Logs(<<"success">>)
    /\ UNCHANGED <<version, apos, workspace, fileTree, activeFile, indicator,
                   overlayHidden, opens, selects, pending, lazyOk, escaped,
                   workerEvents>>
    /\ UNCHANGED notAppVars

AppNext ==
    \/ \E throws \in BOOLEAN : createWorkspace(throws)
    \/ \E throws \in BOOLEAN : initializeMonaco(throws)
    \/ \E ok \in BOOLEAN : openTextDocumentSettles(ok)
    \/ \E kind \in WorkerEventKinds : WorkerEvent(kind)
    \/ WorkerCreatedTimer

ToolVarsIdle == CopyVarsIdle /\ BuildVarsIdle /\ TestVarsIdle /\ AppVarsIdle

----------------------------------------------------------------------------
\* The specifications.

ServerNext ==
    \/ HandleRequest
    \/ Finish

ServerInit == DevVarsInit /\ ServerVarsInit /\ ToolVarsIdle

SpecServer == ServerInit /\ [][ServerNext]_vars

DevInit == DevVarsInit /\ ServerVarsIdle /\ ToolVarsIdle

DevNext ==
    \/ StartInitialBuild
    \/ BuildSucceed
    \/ BuildFail
    \/ \E kind \in EventKinds : FileEvent(kind)
    \/ TimerFire
    \/ \E sig \in Signals : Signal(sig)
    \/ \E ce \in ChildExits : ChildExit(ce[1], ce[2])
    \/ ChildError

SpecDev == DevInit /\ [][DevNext]_vars

CopyInit == DevVarsInit /\ ServerVarsIdle /\ CopyVarsInit /\ BuildVarsIdle /\ TestVarsIdle /\ AppVarsIdle

BuildInit == DevVarsInit /\ ServerVarsIdle /\ CopyVarsIdle /\ BuildVarsInit /\ TestVarsIdle /\ AppVarsIdle

TestInit == DevVarsInit /\ ServerVarsIdle /\ CopyVarsIdle /\ BuildVarsIdle /\ TestVarsInit /\ AppVarsIdle

SpecTest == TestInit /\ [][TestNext]_vars

SpecBuild == BuildInit /\ [][BuildNext]_vars

SpecCopy == CopyInit /\ [][CopyNext]_vars

AppInit ==
    /\ DevVarsInit /\ ServerVarsIdle
    /\ CopyVarsIdle /\ BuildVarsIdle /\ TestVarsIdle /\ AppVarsInit

SpecApp == AppInit /\ [][AppNext]_vars

\* The loop is idle: no build running, none queued, no re-entry timer pending.
LoopIdle ==
    /\ proc = "running"
    /\ pc = "watching"
    /\ ~isBuilding
    /\ ~buildQueue
    /\ timers = 0

----------------------------------------------------------------------------
\* Claims about the watch loop (scripts/dev.js).

\* C1: for every interleaving of watcher events, timer firings and build
\* completions, at most one buildProject invocation is in flight.
C1_AtMostOneBuildInFlight == inFlight <= 1

\* Two watcher events arrived during a build and were queued, not started.
C1_Witness == inFlight = 1 /\ buildQueue /\ burst >= 2

\* C2: the loop is never idle (no build running, none queued, no re-entry timer
\* pending) while some observed change is not covered by a completed build
\* that started after it.
C2_NoIdleWithUncoveredChange == LoopIdle => ~stale

\* A change arrived during a build, the re-entered build completed, loop idle.
C2_Witness == LoopIdle /\ ~stale /\ burstK >= 1 /\ track = 1 /\ lastOp = "buildDone"

C4_SignalForwardedOnceThenExit0 ==
    (exitCause \in Signals /\ spawnCount >= 1) =>
        (proc = "exit(0)" /\ killLog = <<"SIGTERM">> /\ serverProcess = "null")

\* The supervisor has exited on a signal while the child was still running.
C4_Witness ==
    /\ exitCause \in Signals
    /\ spawnCount = 1
    /\ proc = "exit(0)"
    /\ childState = "running"
    /\ killLog = <<"SIGTERM">>

\* C5: the child's exit or error handler changes nothing of the supervisor (it
\* does not exit, does not respawn, keeps the watcher), and a watcher event
\* after the child ended still starts a build when none is running.
C5_ChildEndLeavesLoopRunning ==
    /\ [][ /\ (childState = "running" /\ childState' \in {"exited", "errored"}) =>
                /\ proc' = proc
                /\ spawnCount' = spawnCount
                /\ watcher' = watcher
                /\ serverProcess' = serverProcess
                /\ <<isBuilding, buildQueue, inFlight, timers>>' =
                       <<isBuilding, buildQueue, inFlight, timers>>
           /\ ( /\ childState \in {"exited", "errored"}
                /\ events' = events + 1
                /\ ~isBuilding ) =>
                    (isBuilding' /\ inFlight' = inFlight + 1)
         ]_vars
    /\ []((childState \in {"exited", "errored"} /\ proc = "running") =>
              (watcher /\ spawnCount = 1))

\* After the child ended, a watcher event started a build.
C5_Witness ==
    /\ childState \in {"exited", "errored"}
    /\ proc = "running"
    /\ lastOp \in EventKinds
    /\ isBuilding
    /\ burst = 0

----------------------------------------------------------------------------
\* Claims about the Express application (server.js).

Responded == spc = "responded"

\* public/index.html delivered as a file.
DefaultDocument == [kind |-> "file", root |-> "public", file |-> <<IndexHtml>>]

\* The request path names a file under public/, or under dist/ below /monaco.
ExistsUnderRoot(p) ==
    \/ p \in pubFiles
    \/ Len(p) > 1 /\ p[1] = Seg("monaco", "") /\ Tail(p) \in distFiles

\* C6 as stated: every GET whose path contains a dot and that no static root
\* answers gets status 404 and never the default document.
C6_DottedMissIs404 ==
    (Responded /\ req.method = "GET" /\ IncludesDot(req.path) /\ ~StaticAnswers(req)) =>
        (res.status = 404 /\ res.body # DefaultDocument)

\* C6 (amended): a GET whose path contains a dot and that no static root answers
\* never gets a file (so never the default document), whatever the Accept
\* header; its status is 404 when the path is validly percent-encoded and 500
\* when it is not.
C6_DottedMissIsNeverIndex ==
    (Responded /\ req.method = "GET" /\ IncludesDot(req.path) /\ ~StaticAnswers(req)) =>
        /\ res.body.kind # "file"
        /\ res.status = IF Decodable(req.path) THEN 404 ELSE 500

\* An HTML-accepting client asked for a missing dotted path that only the
\* fallback route matches, while index.html exists, and got 404.
C6_Witness ==
    /\ Responded
    /\ req.method = "GET"
    /\ req.acceptsHtml
    /\ req.path = <<Seg("x", "wasm")>>
    /\ ~StaticAnswers(req)
    /\ <<IndexHtml>> \in pubFiles
    /\ res.status = 404

\* C7 as stated: every GET with a dot-free path from an HTML-accepting client
\* gets the default document with status 200.
C7_DotFreeGetsIndex ==
    (Responded /\ req.method = "GET" /\ ~IncludesDot(req.path) /\ req.acceptsHtml) =>
        (res.status = 200 /\ res.body = DefaultDocument)

\* C7 (amended): a GET from an HTML-accepting client with a validly encoded,
\* dot-free path that is neither /health nor /debug/files and that no static
\* root answers (or that is "/") gets public/index.html with status 200 when
\* that file exists, and status 500 when it does not.
C7_NavigationGetsIndex ==
    ( /\ Responded
      /\ req.method = "GET"
      /\ req.acceptsHtml
      /\ ~IncludesDot(req.path)
      /\ Decodable(req.path)
      /\ Unslashed(req.path) # <<Seg("health", "")>>
      /\ Unslashed(req.path) # <<Seg("debug", ""), Seg("files", "")>>
      /\ (~StaticAnswers(req) \/ req.path = <<E>>) ) =>
        IF <<IndexHtml>> \in pubFiles
        THEN res.status = 200 /\ res.body = DefaultDocument
        ELSE res.status = 500 /\ res.body.kind = "error-json"

\* A navigation request for a path no static root knows got index.html.
C7_Witness ==
    /\ Responded
    /\ req.method = "GET"
    /\ req.acceptsHtml
    /\ req.path = <<Seg("x", ""), Seg("files", "")>>
    /\ ~StaticAnswers(req)
    /\ res.status = 200
    /\ res.body = DefaultDocument

\* C8: a GET for an existing file whose path ends in .mjs is answered 200 with
\* Content-Type exactly application/javascript, and one whose path ends in
\* .wasm with exactly application/wasm, from either static root.
C8_ModuleAndWasmTypes ==
    (Responded /\ req.method = "GET" /\ ExistsUnderRoot(req.path)) =>
        /\ EndsWith(req.path, "mjs") =>
              (res.status = 200 /\ res.body.kind = "file"
               /\ res.ctype = "application/javascript")
        /\ EndsWith(req.path, "wasm") =>
              (res.status = 200 /\ res.body.kind = "file"
               /\ res.ctype = "application/wasm")

\* A .wasm file that only exists under dist/ was served through /monaco.
C8_Witness ==
    /\ Responded
    /\ req.method = "GET"
    /\ req.path = <<Seg("monaco", ""), Seg("x", "wasm")>>
    /\ res.body.kind = "file"
    /\ res.body.root = "dist"
    /\ res.ctype = "application/wasm"

\* C9: GET /health is answered 200 with the JSON health body, whatever files
\* the static directories hold.
C9_HealthAlwaysOk ==
    (Responded /\ req.method = "GET" /\ req.path = <<Seg("health", "")>>) =>
        (res.status = 200 /\ res.body = HealthBody)

\* C10: every response carries Cross-Origin-Embedder-Policy: require-corp and
\* Cross-Origin-Opener-Policy: same-origin.
C10_IsolationHeadersAlways ==
    Responded => (res.coep = "require-corp" /\ res.coop = "same-origin")

\* C11: a response carries Cache-Control: public, max-age=31536000 exactly when
\* the request path ends in .mjs, .wasm, .js, .css or .html.
C11_FarFutureCacheIffAssetPath ==
    Responded =>
        ((res.cache = "public, max-age=31536000") <=>
            (Len(req.path) > 0 /\ Last(req.path).ext \in CacheExts))

\* C18: a request whose path cannot be decoded or holds a ".." segment (plain
\* or percent-encoded) is answered with an error status and never with a file.
C18_BadPathGetsErrorResponse ==
    (Responded /\ (~Decodable(req.path) \/ HasUpSegment(req.path))) =>
        (res.status \in {400, 403, 404, 500} /\ res.body.kind # "file")

\* The request names one of the two JSON endpoints.
IsEndpoint(p) ==
    \/ Unslashed(p) = <<Seg("health", "")>>
    \/ Unslashed(p) = <<Seg("debug", ""), Seg("files", "")>>

\* C24 as stated: the default document is returned only to GETs from clients
\* that accept HTML for dot-free paths, and every other GET that matches no
\* static file or endpoint gets 404 and not the default document.
C24_IndexOnlyForNavigation ==
    (Responded /\ req.method = "GET") =>
        /\ (res.body = DefaultDocument) => (req.acceptsHtml /\ ~IncludesDot(req.path))
        /\ ( /\ ~StaticAnswers(req)
             /\ ~IsEndpoint(req.path)
             /\ (IncludesDot(req.path) \/ ~req.acceptsHtml) ) =>
               (res.status = 404 /\ res.body # DefaultDocument)

\* C24 (amended): among the GETs that no static root answers and that name no
\* endpoint, only those from clients accepting HTML with a dot-free path get
\* the default document; the others never get a file, and get 404 when the
\* path is validly percent-encoded and 500 when it is not.
C24_FallbackIndexOnlyForNavigation ==
    (Responded /\ req.method = "GET" /\ ~StaticAnswers(req) /\ ~IsEndpoint(req.path)) =>
        /\ (res.body = DefaultDocument) => (req.acceptsHtml /\ ~IncludesDot(req.path))
        /\ (IncludesDot(req.path) \/ ~req.acceptsHtml) =>
               /\ res.body.kind # "file"
               /\ res.status = IF Decodable(req.path) THEN 404 ELSE 500

\* A client that does not accept HTML asked for a dot-free path only the
\* fallback route matches, while index.html exists, and got 404.
C24_Witness ==
    /\ Responded
    /\ req.method = "GET"
    /\ ~req.acceptsHtml
    /\ req.path = <<Seg("x", "")>>
    /\ ~StaticAnswers(req)
    /\ <<IndexHtml>> \in pubFiles
    /\ res.status = 404
    /\ res.body.kind # "file"

\* C25: a response with status 404 or 500 never carries
\* Cache-Control: public, max-age=31536000.
C25_NoFarFutureCacheOnErrors ==
    (Responded /\ res.status \in {404, 500}) => res.cache # "public, max-age=31536000"

LoopState ==
    IF ~isBuilding THEN "idle" ELSE IF buildQueue THEN "build-queued" ELSE "building"

\* One step of the watch loop seen through the flags.
FlagStep ==
    /\ (events' = events + 1 /\ LoopState = "idle") =>
            (LoopState' = "building" /\ inFlight' = inFlight + 1)
    /\ (events' = events + 1 /\ LoopState # "idle") =>
            (LoopState' = "build-queued" /\ inFlight' = inFlight)
    /\ (inFlight' = inFlight - 1) =>
            /\ LoopState' = "idle"
            /\ ~buildQueue'
            /\ timers' = IF LoopState = "build-queued" THEN timers + 1 ELSE timers
    /\ (timers' = timers - 1 /\ LoopState = "idle") =>
            (LoopState' = "building" /\ inFlight' = inFlight + 1)
    /\ (timers' = timers - 1 /\ LoopState # "idle") =>
            (LoopState' = "build-queued" /\ inFlight' = inFlight)
    /\ (events' = events /\ inFlight' = inFlight /\ timers' = timers) =>
            UNCHANGED <<isBuilding, buildQueue>>

\* C20: buildQueue is set only while isBuilding is, and every step moves the
\* flags as the idle / building / build-queued machine prescribes: an event in
\* idle starts a build, an event while building only queues, a completion
\* clears the queue and schedules the 100 ms re-entry, or goes idle.
C20_FlagsRefineLoopMachine ==
    /\ [](buildQueue => isBuilding)
    /\ [][FlagStep]_vars

\* The 100 ms timer of a completed build-queued build re-entered building.
C20_Witness ==
    /\ lastOp = "timer"
    /\ LoopState = "building"
    /\ inFlight = 1
    /\ track = 1
    /\ burstK >= 1

\* C21: after a rebuild failed the supervisor is still running and isBuilding
\* is false again.
C21_FailedRebuildLeavesLoopRunning ==
    (lastOp = "buildFail" /\ pc = "watching") => (proc = "running" /\ ~isBuilding)

\* C22: a supervisor that has exited and whose spawned server child is still
\* running has sent SIGTERM to it.
C22_ExitSignalsRunningChild ==
    (proc # "running" /\ spawnCount > 0 /\ childState = "running") =>
        (killLog # <<>>)

\* C23: every build the 100 ms timer starts was preceded by a change event
\* that arrived after the most recently started build began.
C23_NoRedundantRebuild ==
    [][(timers' = timers - 1 /\ inFlight' = inFlight + 1) => burst >= 1]_vars

----------------------------------------------------------------------------
\* Claims about the Asset Copier (scripts/copy-monaco.js).

\* C12: when a critical file is absent after the copy the copier exits with a
\* non-zero code and does not write verification.json; when it writes
\* verification.json, every critical file is present, the status is 'ready'
\* and every entry of the manifest is true.
C12_ManifestOnlyWhenAllPresent ==
    /\ (cphase = "done" /\ distExists /\ ~allFilesPresent) =>
            (cproc = "exit(1)" /\ ~wrote)
    /\ wrote =>
            /\ allFilesPresent
            /\ cproc = "exit(0)"
            /\ manifest.status = "ready"
            /\ \A f \in criticalFiles : manifest.files[f]

\* A run copied a tree that lacks a critical file and ended with exit(1),
\* leaving no manifest.
C12_Witness ==
    /\ distExists
    /\ cphase = "done"
    /\ cproc = "exit(1)"
    /\ warnings = {}
    /\ attempted = src
    /\ ~allFilesPresent
    /\ manifest = NoManifest

\* Every file of the source tree is in the destination with the same content.
Mirrored(d) == \A f \in src : f \in DOMAIN d /\ d[f] = DistContent(f)

\* C13: a traversal without failures into an empty destination leaves exactly
\* the source's files, content identical; a traversal without failures over a
\* destination that already mirrors the source leaves it as it was.
C13_CopyMirrorsAndIsIdempotent ==
    (cphase \in {"verify", "done"} /\ distExists /\ warnings = {}) =>
        /\ (DOMAIN snap = {}) => (DOMAIN dest = src /\ Mirrored(dest))
        /\ Mirrored(snap) => (dest = snap)

\* The second run ended after a first run that copied into an empty
\* destination without failures.
C13_Witness ==
    /\ run = 2
    /\ firstRun = "clean"
    /\ cphase = "verify"
    /\ warnings = {}
    /\ attempted = src
    /\ DOMAIN dest = src
    /\ dest = snap

\* C14: a failing file copy or directory read is logged and skipped: when the
\* traversal is over, every source file outside the failed directories was
\* attempted, every attempted file was copied or logged, every failed
\* directory was logged, and the process did not end before the verification.
C14_FailuresAreSkippedNotFatal ==
    /\ (cphase \in {"verify", "done"} /\ distExists) =>
            /\ \A f \in src :
                   (\A d \in failedDirs : ~IsUnder(d, f)) => f \in attempted
            /\ \A f \in attempted :
                   (f \in DOMAIN dest /\ dest[f] = DistContent(f)) \/ <<"file", f>> \in warnings
            /\ \A d \in failedDirs : <<"directory", d>> \in warnings
    /\ (cproc # "running" /\ distExists) => cphase = "done"

\* One file copy failed and every file of the source was still attempted.
C14_Witness ==
    /\ cphase = "verify"
    /\ cproc = "running"
    /\ \E f \in src : warnings = {<<"file", f>>}
    /\ attempted = src

\* C26: a file that was under public/monaco when the run started and has no
\* counterpart in the source is still there, unchanged; a run that finds no
\* source directory has exited non-zero and changed nothing.
C26_CopierOnlyAddsOrOverwrites ==
    /\ \A f \in DOMAIN snap \ src : f \in DOMAIN dest /\ dest[f] = snap[f]
    /\ (cphase = "done" /\ ~distExists) =>
            /\ cproc = "exit(1)"
            /\ dest = snap
            /\ destDirs = (IF DOMAIN snap = {} THEN {} ELSE {Root})
            /\ manifest = NoManifest

\* A run copied the whole source next to a file the source does not hold.
C26_Witness ==
    /\ distExists
    /\ cphase = "done"
    /\ attempted = src
    /\ warnings = {}
    /\ <<"old.mjs">> \in DOMAIN snap
    /\ dest[<<"old.mjs">>] = OldContent(<<"old.mjs">>)
    /\ Mirrored(dest)

\* The monacoFiles of the Verification Runner as paths under public/monaco.
monacoFilePaths ==
    { <<"index.mjs">>, <<"editor-core.mjs">>, <<"editor-worker-main.mjs">>,
      <<"lsp", "index.mjs">>, <<"lsp", "typescript", "worker.mjs">>,
      <<"lsp", "html", "worker.mjs">>, <<"lsp", "css", "worker.mjs">>,
      <<"lsp", "json", "worker.mjs">>, <<"onig.wasm">> }

\* The files the server's /debug/files lists, as paths under /monaco.
debugFiles ==
    { <<"index.mjs">>, <<"editor-core.mjs">>, <<"lsp", "index.mjs">>,
      <<"lsp", "typescript", "worker.mjs">>, <<"lsp", "html", "worker.mjs">>,
      <<"lsp", "css", "worker.mjs">>, <<"lsp", "json", "worker.mjs">>,
      <<"onig.wasm">> }

\* C27: when the copier has ended with exit 0 and written verification.json,
\* every Monaco file the Verification Runner checks and /debug/files lists is
\* under public/monaco.
C27_CriticalListCoversConsumers ==
    (cphase = "done" /\ cproc = "exit(0)" /\ wrote /\ manifest.status = "ready") =>
        (monacoFilePaths \cup debugFiles) \subseteq DOMAIN dest

----------------------------------------------------------------------------
\* Claims about the Bundler Invocation (scripts/build.js).

\* C15: a build that fails has printed a diagnostic and exited non-zero, and
\* it has updated both of public/dist/app.js and public/index.html or neither.
C15_FailedBuildLeavesNoPartialOutput ==
    (bproc = "exit(1)") =>
        /\ diag >= 1
        /\ (appJs.build = buildNo) <=> (indexHtml.build = buildNo)

----------------------------------------------------------------------------
\* Claims about the Verification Runner (the setup test script).

\* C16: when the report is printed every check of the fixed sequence has been
\* executed, the check that ran last recorded exactly one outcome, and the
\* three printed counts sum to the number of checks that ran.
C16_EveryCheckRunsAndCountsAddUp ==
    /\ (tphase \in {"files", "content", "scripts", "reported"} /\ checksRun > 0) =>
            Len(lastLogged) = 1
    /\ (tphase = "reported") =>
            /\ checksRun = Len(FileChecks) + Len(ContentChecks) + Len(Probes)
                             + Cardinality(requiredScripts)
            /\ report.successes + report.warnings + report.errors = checksRun

\* C17: a probe issues one request and, once it has ended, has recorded one
\* outcome: success for 200, warning for another status, one error for a
\* timeout or a failed connection.
C17_ProbeRecordsExactlyOneOutcome ==
    \A p \in 1..Len(Probes) :
        /\ probe[p].requests <= 1
        /\ probe[p].settled =>
               /\ probe[p].requests = 1
               /\ probe[p].outcomes =
                      << CASE probe[p].cause = "200" -> "success"
                           [] probe[p].cause = "other status" -> "warning"
                           [] OTHER -> "error" >>

----------------------------------------------------------------------------
\* Claims about the page (src/app.js and its debug-console version).

\* C28: in the debug-console version one openFile call whose openTextDocument
\* succeeds makes exactly one openTextDocument call and one selectFile call,
\* and leaves no open pending once the file is selected.
C28_OpenFileTerminates ==
    version = "debug" =>
        /\ opens <= 1
        /\ selects <= 1
        /\ selects = 1 => pending = 0

\* C29: the debug log holds at most maxLogs entries, and they are the most
\* recent min(n, maxLogs) of the n messages logged, oldest first.
C29_LogHoldsMostRecent ==
    /\ Len(logElement) = (IF logCount < maxLogs THEN logCount ELSE maxLogs)
    /\ \A i \in 1..Len(logElement) :
           logElement[i].message = logCount - Len(logElement) + i

\* More than maxLogs messages were logged, so entries have been evicted.
C29_Witness ==
    /\ logCount > maxLogs
    /\ Len(logElement) = maxLogs

\* C30: the entry file is opened, the status set to ready and the overlay
\* hidden only after createWorkspace and lazy() both completed; when either
\* throws no file is opened, the status is error and not ready, and no
\* rejection leaves init or openFile.
C30_InitStrictlyOrdered ==
    /\ (opens > 0 \/ indicator = "ready" \/ overlayHidden) =>
           (workspace # "null" /\ lazyOk)
    /\ apos = "caught" =>
           /\ opens = 0
           /\ ~overlayHidden
           /\ version = "debug" => indicator = "error"
    /\ escaped = 0

\* lazy() threw after the workspace was created, in the debug-console version.
C30_Witness ==
    /\ version = "debug"
    /\ apos = "caught"
    /\ workspace # "null"
    /\ ~lazyOk

====
